---- MODULE Spec2Model ----
(***************************************************************************)
(* synacksync: one invocation of main() loads the cached rows of the three *)
(* SQLite tables, fetches the three record lists from the Synack API and   *)
(* runs compare_and_update once per entity kind against that kind's Google *)
(* calendar.  The model follows synacksync.py, database.py and             *)
(* gcaltool/calendar_service.py statement by statement.                    *)
(*                                                                         *)
(* Texts are sequences of word tokens, so an f-string is a concatenation.  *)
(* A datetime object and its stored/ISO text are different values, as in   *)
(* Python: Datetime(n) is the object, its text is [text |-> n].            *)
(***************************************************************************)
EXTENDS Integers, Sequences, FiniteSets, TLC

\* ------------------------------------------------------------------ bounds
MaxIds == 2          \* record ids known to the upstream API, per kind
MaxNow == 2          \* wall-clock instants at which main() is started
MaxFetched == 2      \* records returned by the three fetches of one invocation

IdNames == <<"id1", "id2", "id3", "id4">>
Ids == {IdNames[i] : i \in 1..MaxIds}
\* What the upstream API sends for one record: a free text (plain or
\* domain-shaped) and an instant (claimedOn, upcoming_start_date, expires_at)
RawVariants == {<<<<"alpha">>, 2>>, <<<<"alpha">>, 3>>, <<<<"example.com">>, 2>>}

\* ------------------------------------------------------------ Python values
None == "None"
\* The test reduced to '"event_id" in db_entry': the key is always there
TruthyIdKeyOnly(v) == TRUE
\* Truth value of an optional string (an event_id) and of a text
TruthyId(v) == v # None /\ v # ""
TruthyText(text) == text # <<>>

Datetime(n) == [datetime |-> n]
\* datetime.isoformat() / sqlite3's default datetime adapter: the object becomes text
isoformat(d) == [text |-> d.datetime]
\* datetime.fromisoformat(): the text becomes an object again
fromisoformat(s) == [datetime |-> s.text]

Range(s) == {s[i] : i \in DOMAIN s}

\* ------------------------------------------------------------ sanitize_text
IpShaped == {"10.0.0.1"}
DomainShaped == {"example.com"}
SanitizeToken(tok) ==
    IF tok \in IpShaped THEN "*.*.*.*"
    ELSE IF tok \in DomainShaped THEN "[domain]"
    ELSE tok
sanitize_text(text) == [i \in DOMAIN text |-> SanitizeToken(text[i])]

\* ------------------------------------------------------- entity kinds, main
Kinds == <<"task", "target", "patch_verification">>
KindSet == Range(Kinds)

\* --------------------------------------------------- parse_*_response
\* One item of the tasks response: payout.amount, listingCodename and
\* maxCompletionTimeInSecs beside the title, the description and claimedOn
RawTask(i, title, claimedOn, amount, codename, secs) ==
    [id |-> i, title |-> title, description |-> <<"steps">>, claimedOn |-> claimedOn,
     payout |-> amount, listingCodename |-> codename,
     maxCompletionTimeInSecs |-> secs]
RawTasks ==
    {RawTask(i, v[1], v[2], 500, <<"CODENAME">>, 1) : i \in Ids, v \in RawVariants}
RawTargets ==
    {[slug |-> i, codename |-> v[1], upcoming_start_date |-> v[2]] :
        i \in Ids, v \in RawVariants}
RawPatchVerifications ==
    {[id |-> i, vuln_title |-> v[1], expires_at |-> v[2]] : i \in Ids, v \in RawVariants}
RawItems(kd) ==
    CASE kd = "task" -> RawTasks
      [] kd = "target" -> RawTargets
      [] kd = "patch_verification" -> RawPatchVerifications

\* parse_tasks_response with the duration left out of max_completion_time
parse_task_IgnoresDuration(item) ==
    [id |-> item.id,
     title |-> sanitize_text(item.title),
     description |-> sanitize_text(item.description),
     listing_codename |-> item.listingCodename,
     time_given |-> item.maxCompletionTimeInSecs,
     claimed_on |-> Datetime(item.claimedOn),
     max_completion_time |-> Datetime(item.claimedOn),
     payout_amount |-> item.payout,
     payout_currency |-> "USD",
     event_id |-> None]
parse_task(item) ==
    [id |-> item.id,
     title |-> sanitize_text(item.title),
     description |-> sanitize_text(item.description),
     listing_codename |-> item.listingCodename,
     time_given |-> item.maxCompletionTimeInSecs,
     claimed_on |-> Datetime(item.claimedOn),
     max_completion_time |-> Datetime(item.claimedOn + item.maxCompletionTimeInSecs),
     payout_amount |-> item.payout,
     payout_currency |-> "USD",
     event_id |-> None]

parse_target(item) ==
    [id |-> item.slug,
     category |-> <<"Web">>,
     codename |-> item.codename,
     averagePayout |-> 0,
     isActive |-> FALSE,
     start |-> Datetime(item.upcoming_start_date),
     discovery |-> FALSE,
     vuln_accepted |-> 0,
     dynamic_payment_percentage |-> 0,
     event_id |-> None]

parse_patch_verification(item) ==
    [id |-> item.id,
     message |-> sanitize_text(<<"verify">>),
     expires |-> Datetime(item.expires_at),
     vuln_id |-> "v",
     vuln_title |-> sanitize_text(item.vuln_title),
     event_id |-> None]

parse_response(kind, data) ==
    [i \in DOMAIN data |->
        CASE kind = "task" -> parse_task(data[i])
          [] kind = "target" -> parse_target(data[i])
          [] kind = "patch_verification" -> parse_patch_verification(data[i])]

\* ------------------------------------------------ rendering (compare_and_update)
Str(b) == IF b THEN "True" ELSE "False"

\* The summary, start, end and description compare_and_update derives from one
\* entry.  A patch verification has no "start" key, so its start is the clock.
Render(kind, api_entry, clock) ==
    CASE kind = "task" ->
           [summary |-> <<ToString(api_entry.payout_amount), "-">> \o api_entry.title
                          \o <<"-">> \o api_entry.listing_codename,
            start |-> api_entry.claimed_on,
            end |-> api_entry.max_completion_time,
            description |-> api_entry.description]
      [] kind = "target" ->
           [summary |-> api_entry.codename,
            start |-> api_entry.start,
            end |-> api_entry.start,
            description |-> <<"Category:">> \o api_entry.category
                          \o <<"Discovery:", Str(api_entry.discovery)>>
                          \o <<"Vuln Accepted:", ToString(api_entry.vuln_accepted)>>
                          \o <<"Dynamic Payment Percentage:",
                               ToString(api_entry.dynamic_payment_percentage)>>]
      [] kind = "patch_verification" ->
           [summary |-> <<"Patch Verification for">> \o api_entry.vuln_title,
            start |-> Datetime(clock),
            end |-> api_entry.expires,
            description |-> api_entry.message]

\* ------------------------------------------------------------ database.py
\* A table is the set of its rows.  What get_upcoming_entries hands to
\* compare_and_update becomes db_dict, a function from ids to a row or NoRow.
NoRow == [absent |-> TRUE]
EmptyTable == [i \in Ids |-> NoRow]
Present(table) == {i \in Ids : table[i] # NoRow}


\* INSERT OR REPLACE binds every column from the item; sqlite3 adapts a datetime
\* parameter to its ISO text, and item.get('event_id') is None when the key is unset
task_row(item) ==
    [id |-> item.id, title |-> item.title, description |-> item.description,
     listing_codename |-> item.listing_codename, time_given |-> item.time_given,
     claimed_on |-> isoformat(item.claimed_on),
     max_completion_time |-> isoformat(item.max_completion_time),
     payout_amount |-> item.payout_amount, payout_currency |-> item.payout_currency,
     event_id |-> item.event_id]
target_row(item) ==
    [id |-> item.id, category |-> item.category, codename |-> item.codename,
     averagePayout |-> item.averagePayout, isActive |-> item.isActive,
     start |-> isoformat(item.start), discovery |-> item.discovery,
     vuln_accepted |-> item.vuln_accepted,
     dynamic_payment_percentage |-> item.dynamic_payment_percentage,
     event_id |-> item.event_id]
patch_verification_row(item) ==
    [id |-> item.id, message |-> item.message, expires |-> isoformat(item.expires),
     vuln_id |-> item.vuln_id, vuln_title |-> item.vuln_title,
     event_id |-> item.event_id]
RowOf(kind, item) ==
    CASE kind = "task" -> task_row(item)
      [] kind = "target" -> target_row(item)
      [] kind = "patch_verification" -> patch_verification_row(item)

\* The same on tables without "id TEXT PRIMARY KEY": the INSERT finds no
\* conflicting row to replace
save_to_db_NoPrimaryKey(st, kind, item, delete) ==
    [st EXCEPT ![kind] = IF delete THEN {r \in @ : r.id # item.id}
                         ELSE @ \cup {RowOf(kind, item)}]
\* The same with the event_id column left out of the INSERT
save_to_db_WithoutEventId(st, kind, item, delete) ==
    [st EXCEPT ![kind] =
        IF delete THEN {r \in @ : r.id # item.id}
        ELSE {r \in @ : r.id # item.id}
                \cup {RowOf(kind, [item EXCEPT !.event_id = None])}]
\* The same with a DELETE whose WHERE clause matches no row
save_to_db_DeletesNothing(st, kind, item, delete) ==
    [st EXCEPT ![kind] = IF delete THEN @
                         ELSE {r \in @ : r.id # item.id} \cup {RowOf(kind, item)}]
\* save_tasks_to_db / save_targets_to_db / save_patch_verifications_to_db on a
\* one-item list (the only way compare_and_update calls them), then commit.
\* DELETE removes the rows with the item's id; INSERT OR REPLACE removes the row
\* that conflicts on the primary key id and inserts the new one.
save_to_db(st, kind, item, delete) ==
    [st EXCEPT ![kind] = IF delete THEN {r \in @ : r.id # item.id}
                         ELSE {r \in @ : r.id # item.id} \cup {RowOf(kind, item)}]

\* The tables as the open connection sees them after the cursor has executed
\* the statements of the first n items of data
RECURSIVE Executed(_, _, _, _, _)
Executed(st, kind, data, delete, n) ==
    IF n = 0 THEN st
    ELSE save_to_db(Executed(st, kind, data, delete, n - 1), kind, data[n], delete)
\* The same with conn.commit() inside the loop, after every statement
save_list_to_db_CommitsEachItem(st, kind, data, delete, raises_at) ==
    IF raises_at = 0 THEN Executed(st, kind, data, delete, Len(data))
    ELSE Executed(st, kind, data, delete, raises_at - 1)
\* save_*_to_db on a list of any length.  raises_at is 0 when nothing raises,
\* n when the statement of item n raises, Len(data) + 1 when conn.commit()
\* raises.  The one commit comes after the loop, so an exception leaves the
\* function with the transaction open, and an open transaction is rolled
\* back when the connection goes away.
save_list_to_db(st, kind, data, delete, raises_at) ==
    IF raises_at = 0 THEN Executed(st, kind, data, delete, Len(data)) ELSE st

\* The column the SELECT of get_upcoming_entries filters on
TimeColumn(kind, row) ==
    CASE kind = "task" -> row.max_completion_time
      [] kind = "target" -> row.start
      [] kind = "patch_verification" -> row.expires
\* SQLite's "column > ?" with a REAL parameter: a TEXT value sorts after every
\* number, whatever instant it spells
SqliteGreater(value, real) ==
    IF "text" \in DOMAIN value THEN TRUE ELSE value.real > real
\* get_upcoming_entries: per kind, the rows the WHERE clause keeps, as the
\* db_dict compare_and_update builds from them
get_upcoming_entries(st, clock) ==
    [kind \in KindSet |->
        [i \in Ids |->
            LET rows == {r \in st[kind] :
                            r.id = i /\ SqliteGreater(TimeColumn(kind, r), clock)}
            IN IF rows = {} THEN NoRow ELSE CHOOSE r \in rows : TRUE]]

\* ------------------------------------------------ gcaltool/calendar_service.py
EventId(n) == "evt" \o ToString(n)

\* events().list(timeMin=now, singleEvents, orderBy=startTime): the events that
\* end after timeMin
ListedEvents(events, clock) == {e \in events : fromisoformat(e.end).datetime > clock}
\* {event['summary']: event for event in items}: per summary the last item in
\* start order survives; the values of that dict
get_upcoming_events(items) ==
    LET Last(summary) ==
            CHOOSE e \in items :
                /\ e.summary = summary
                /\ \A f \in items : f.summary = summary => f.start.text <= e.start.text
    IN {Last(e.summary) : e \in items}

\* ------------------------------------------------ add_event / edit_event
\* The body add_event inserts (a description of None is the empty text); rec is a
\* history field: the record the event was made for
add_event(new_id, rec, summary, start, end, description) ==
    [id |-> new_id,
     summary |-> sanitize_text(summary),
     location |-> None,
     description |-> IF TruthyText(description) THEN sanitize_text(description) ELSE <<>>,
     start |-> isoformat(start),
     end |-> isoformat(end),
     rec |-> rec]

\* edit_event storing the summary as it was passed
edit_event_Unsanitized(event, summary, start, end, description) ==
    [event EXCEPT
        !.summary = IF TruthyText(summary) THEN summary ELSE @,
        !.start = isoformat(start),
        !.end = isoformat(end),
        !.description = IF TruthyText(description) THEN sanitize_text(description) ELSE @]
\* The body edit_event sends to events().update: the event it got, with every
\* truthy argument overwritten
edit_event(event, summary, start, end, description) ==
    [event EXCEPT
        !.summary = IF TruthyText(summary) THEN sanitize_text(summary) ELSE @,
        !.start = isoformat(start),
        !.end = isoformat(end),
        !.description = IF TruthyText(description) THEN sanitize_text(description) ELSE @]

\* ------------------------------------------------ dict construction
\* api_dict = {entry["id"]: entry for entry in api_entries}: the keys in order of
\* first occurrence, each with the entry of its last occurrence
RECURSIVE ApiKeys(_)
ApiKeys(entries) ==
    IF entries = <<>> THEN <<>>
    ELSE LET front == ApiKeys(SubSeq(entries, 1, Len(entries) - 1))
             last == entries[Len(entries)].id
         IN IF last \in Range(front) THEN front ELSE Append(front, last)
\* The same with the entry of the first occurrence kept
ApiEntryFirst(entries, api_id) ==
    entries[CHOOSE i \in DOMAIN entries :
                /\ entries[i].id = api_id
                /\ \A j \in DOMAIN entries : entries[j].id = api_id => i <= j]
ApiEntry(entries, api_id) ==
    entries[CHOOSE i \in DOMAIN entries :
                /\ entries[i].id = api_id
                /\ \A j \in DOMAIN entries : entries[j].id = api_id => j <= i]
\* The keys of an api_dict that holds the first fetched entry only
ApiIdsOfFirst(entries) == {entries[i].id : i \in DOMAIN entries \cap {1}}
\* The keys of api_dict as a set: what "db_id not in api_dict" tests
ApiIds(entries) == {entries[i].id : i \in DOMAIN entries}

\* ------------------------------------------------------------------ state
VARIABLES
    pc,               \* where main() is: "idle", "fetch", "list", "loop", "save",
                      \* "db_save", or how it ended: "done", "returned" (before
                      \* setup_database), "exit1", "crashed", "killed"
    now,              \* the wall clock when main() was started
    store,            \* the SQLite file: per kind, the rows of its table
    calendar,         \* the Google calendars: per kind, the set of live events
    next_event,       \* how many event ids the calendar service has issued
    db,               \* db_tasks, db_targets, db_patch_verifications of this run
    api,              \* api_tasks, api_targets, api_patch_verifications of this run
    fetch_failed,     \* the kinds whose fetch got a non-200 answer in this run
    k,                \* which compare_and_update call main() is in (index in Kinds)
    window,           \* per kind, the items events().list returned in this run
    upcoming_events,  \* compare_and_update: the values of upcoming_events
    list_failed,      \* compare_and_update: get_upcoming_events caught an HttpError
    api_keys,         \* compare_and_update: the keys of api_dict not yet visited
    db_keys,          \* compare_and_update: the keys of db_dict not yet visited
    pending,          \* the entry whose projection call returned and whose row is
                      \* about to be written or deleted
    log,              \* history: the projection calls and store writes of this run
    repeat,           \* history: this run began right after a run that returned
                      \* and (once it has fetched) fetched the same lists
    same_window,      \* history: and this compare_and_update listed the same window
    prev_api,         \* history: what the previous run fetched, until this run's fetch
    prev_window       \* history: the windows it listed, until this run's listing

run_vars == <<db, api, fetch_failed, k, window, upcoming_events, list_failed,
              api_keys, db_keys, pending, log>>
prev_vars == <<repeat, same_window, prev_api, prev_window>>
vars == <<pc, now, store, calendar, next_event, run_vars, prev_vars>>

Stopped == {"idle", "done", "returned", "exit1", "crashed", "killed"}
NoPending == [id |-> None]
NoLists == [kind \in KindSet |-> <<>>]
NoTables == [kind \in KindSet |-> EmptyTable]
NoStore == [kind \in KindSet |-> {}]
NoWindows == [kind \in KindSet |-> {}]
kind == Kinds[k]

\* What a process holds in memory before main() has done anything
FreshRun ==
    /\ db = NoTables
    /\ api = NoLists
    /\ fetch_failed = {}
    /\ k = 1
    /\ window = NoWindows
    /\ upcoming_events = {}
    /\ list_failed = FALSE
    /\ api_keys = <<>>
    /\ db_keys = {}
    /\ pending = NoPending
    /\ log = <<>>

\* The same of the next state: the process is gone, or a new one has started
ResetRun ==
    /\ db' = NoTables
    /\ api' = NoLists
    /\ fetch_failed' = {}
    /\ k' = 1
    /\ window' = NoWindows
    /\ upcoming_events' = {}
    /\ list_failed' = FALSE
    /\ api_keys' = <<>>
    /\ db_keys' = {}
    /\ pending' = NoPending
    /\ log' = <<>>

ResetPrev ==
    /\ repeat' = FALSE
    /\ same_window' = FALSE
    /\ prev_api' = NoLists
    /\ prev_window' = NoWindows

Init ==
    /\ pc = "idle"
    /\ now = 0
    /\ store = NoStore
    /\ calendar = NoWindows
    /\ next_event = 0
    /\ FreshRun
    /\ repeat = FALSE
    /\ same_window = FALSE
    /\ prev_api = NoLists
    /\ prev_window = NoWindows

Op(op, id, event_id, ok) ==
    [op |-> op, kind |-> kind, id |-> id, event_id |-> event_id, ok |-> ok]

\* ------------------------------------------------------------------ main()
\* load_calendar_ids: config.get of the three keys, None when a key is unset
CalendarKeys == {"mission_calendar", "patch_calendar", "upcoming_calendar"}
Configs == [CalendarKeys -> {None, "", "calendar"}]
AllCalendars == [key \in CalendarKeys |-> "calendar"]
\* The test with "and" for "or": main() returns only when all three are missing
MissingCalendarIdAll(config) == \A key \in CalendarKeys : ~TruthyId(config[key])
\* "if not mission_calendar_id or not patch_calendar_id or not upcoming_calendar_id"
MissingCalendarId(config) == \E key \in CalendarKeys : ~TruthyId(config[key])

\* main() up to the fetches: load_calendar_ids and the return when an id is
\* missing, else setup_database, then get_upcoming_entries.  The clock has
\* moved on since the previous invocation.  History: a configuration that
\* lacks a calendar id is kept as the first entry of the log, with the
\* database file and the calendars as the invocation found them.
MainFrom(configs) ==
    /\ pc \in Stopped
    /\ now < MaxNow
    /\ \E config \in configs :
       \E t \in (now + 1)..MaxNow :
        /\ now' = t
        /\ log' = IF config = AllCalendars THEN <<>>
                  ELSE <<[op |-> "main", kind |-> None, id |-> None,
                          event_id |-> None, ok |-> TRUE, config |-> config,
                          store |-> store, calendar |-> calendar]>>
        /\ IF MissingCalendarId(config)
           THEN /\ pc' = "returned"
                /\ db' = NoTables
                /\ repeat' = FALSE
                /\ prev_api' = NoLists
                /\ prev_window' = NoWindows
           ELSE /\ pc' = "fetch"
                /\ db' = get_upcoming_entries(store, t)
                /\ repeat' = (pc = "done")
                /\ prev_api' = IF pc = "done" THEN api ELSE NoLists
                /\ prev_window' = IF pc = "done" THEN window ELSE NoWindows
    /\ api' = NoLists
    /\ fetch_failed' = {}
    /\ k' = 1
    /\ window' = NoWindows
    /\ upcoming_events' = {}
    /\ list_failed' = FALSE
    /\ api_keys' = <<>>
    /\ db_keys' = {}
    /\ pending' = NoPending
    /\ same_window' = FALSE
    /\ UNCHANGED <<store, calendar, next_event>>

\* main() with the three calendar ids configured
StartMain == MainFrom({AllCalendars})

\* fetch_patch_verifications, fetch_tasks and fetch_targets all answer 200.
\* Bound: the records of one invocation are at most MaxFetched and of one kind.
FetchFrom(kinds, responses, max) ==
    /\ pc = "fetch"
    /\ \E active \in kinds :
       \E n \in 0..max :
       \E items \in [1..n -> responses[active]] :
        api' = [kd \in KindSet |->
                  IF kd = active THEN parse_response(kd, items) ELSE <<>>]
    /\ pc' = "list"
    /\ repeat' = (repeat /\ api' = prev_api)
    /\ prev_api' = NoLists
    /\ UNCHANGED <<now, store, calendar, next_event, db, fetch_failed, k, window,
                   upcoming_events, list_failed, api_keys, db_keys, pending, log,
                   same_window, prev_window>>

Fetch == FetchFrom(KindSet, [kd \in KindSet |-> RawItems(kd)], MaxFetched)

\* fetch_patch_verifications or fetch_tasks answers a non-200 status, prints it
\* and returns []; fetch_targets answers 200 with no target
FetchFails ==
    /\ pc = "fetch"
    /\ \E failed \in (SUBSET {"task", "patch_verification"}) \ {{}} :
        fetch_failed' = failed
    /\ api' = NoLists
    /\ pc' = "list"
    /\ repeat' = (repeat /\ api' = prev_api)
    /\ prev_api' = NoLists
    /\ UNCHANGED <<now, store, calendar, next_event, db, k, window,
                   upcoming_events, list_failed, api_keys, db_keys, pending, log,
                   same_window, prev_window>>

\* fetch_targets answers 401 or any other non-200 status: exit(1)
FetchTargetsFail ==
    /\ pc = "fetch"
    /\ pc' = "exit1"
    /\ fetch_failed' = {"target"}
    /\ UNCHANGED <<now, store, calendar, next_event, db, api, k, window,
                   upcoming_events, list_failed, api_keys, db_keys, pending, log,
                   prev_vars>>

\* ------------------------------------------------------ compare_and_update
\* Its first three statements: the window, db_dict and api_dict
BeginCompare ==
    /\ pc = "list"
    /\ \E http_error \in BOOLEAN :
        LET items == IF http_error THEN {} ELSE ListedEvents(calendar[kind], now)
        IN /\ list_failed' = http_error
           /\ window' = [window EXCEPT ![kind] = items]
           /\ upcoming_events' = get_upcoming_events(items)
           /\ same_window' = (repeat /\ items = prev_window[kind])
    /\ prev_window' = [prev_window EXCEPT ![kind] = {}]
    /\ api_keys' = ApiKeys(api[kind])
    /\ db_keys' = Present(db[kind])
    /\ pc' = "loop"
    /\ UNCHANGED <<now, store, calendar, next_event, db, api, fetch_failed, k,
                   pending, log, repeat, prev_api>>

\* "Check if the title and time already exist in upcoming events"
event_exists(events, summary, start) ==
    \E event \in events :
        event.summary = summary /\ fromisoformat(event.start) = start

\* Decision with the else branch of "if api_id in db_dict" lost
DecisionDropsNew(kd, db_table, api_entry, events, clock) ==
    LET r == Render(kd, api_entry, clock)
        db_entry == db_table[api_entry.id]
    IN IF event_exists(events, r.summary, r.start) THEN "skip"
       ELSE IF db_entry # NoRow
            THEN IF db_entry # api_entry
                 THEN IF TruthyId(db_entry.event_id) THEN "update" ELSE "create"
                 ELSE "unchanged"
            ELSE "unchanged"

\* Decision with the test of db_entry["event_id"] lost: a changed record is
\* always added again
DecisionNeverUpdates(kd, db_table, api_entry, events, clock) ==
    LET r == Render(kd, api_entry, clock)
        db_entry == db_table[api_entry.id]
    IN IF event_exists(events, r.summary, r.start) THEN "skip"
       ELSE IF db_entry # NoRow
            THEN IF db_entry # api_entry THEN "create" ELSE "unchanged"
            ELSE "create"

\* Decision with the two branches of the event_id test swapped
DecisionHealsByUpdate(kd, db_table, api_entry, events, clock) ==
    LET r == Render(kd, api_entry, clock)
        db_entry == db_table[api_entry.id]
    IN IF event_exists(events, r.summary, r.start) THEN "skip"
       ELSE IF db_entry # NoRow
            THEN IF db_entry # api_entry
                 THEN IF TruthyId(db_entry.event_id) THEN "create" ELSE "update"
                 ELSE "unchanged"
            ELSE "create"

\* Decision with the window listed again for every entry instead of once per call
DecisionRefreshesWindow(kd, db_table, api_entry, events, clock) ==
    LET r == Render(kd, api_entry, clock)
        db_entry == db_table[api_entry.id]
        fresh == get_upcoming_events(ListedEvents(calendar[kd], clock))
    IN IF event_exists(fresh, r.summary, r.start) THEN "skip"
       ELSE IF db_entry # NoRow
            THEN IF db_entry # api_entry
                 THEN IF TruthyId(db_entry.event_id) THEN "update" ELSE "create"
                 ELSE "unchanged"
            ELSE "create"

\* What one pass of the first loop decides for api_id, before any call is made
Decision(kd, db_table, api_entry, events, clock) ==
    LET r == Render(kd, api_entry, clock)
        db_entry == db_table[api_entry.id]
    IN IF event_exists(events, r.summary, r.start) THEN "skip"
       ELSE IF db_entry # NoRow
            THEN IF db_entry # api_entry
                 THEN IF TruthyId(db_entry.event_id) THEN "update" ELSE "create"
                 ELSE "unchanged"
            ELSE "create"

\* edit_event with its handler working: the HttpError is printed, edit_event
\* returns None and compare_and_update goes on to save the entry
AfterFailedEditHandled == "save"
\* Where compare_and_update is after a call inside edit_event has raised: the
\* except clause names googleapiclient, which synacksync.py never imports, so
\* evaluating it raises NameError and nothing catches that
AfterFailedEdit == "crashed"

\* One pass of "for api_id, api_entry in api_dict.items()" up to the return of
\* add_event / edit_event.  A call that raises ends the process: add_event has
\* no handler, and edit_event's handler names googleapiclient, which this module
\* never imports, so the handler itself raises NameError.
ApiStep ==
    /\ pc = "loop"
    /\ api_keys # <<>>
    /\ LET api_id == Head(api_keys)
           api_entry == ApiEntry(api[kind], api_id)
           r == Render(kind, api_entry, now)
           d == Decision(kind, db[kind], api_entry, upcoming_events, now)
           db_entry == db[kind][api_id]
       IN CASE d = "skip" ->
                 /\ log' = Append(log, Op("skip", api_id, None, TRUE))
                 /\ api_keys' = Tail(api_keys)
                 /\ UNCHANGED <<pc, calendar, next_event, pending>>
            [] d = "unchanged" ->
                 /\ api_keys' = Tail(api_keys)
                 /\ UNCHANGED <<pc, calendar, next_event, pending, log>>
            [] d = "create" ->
                 \E ok \in BOOLEAN :
                    IF ok
                    THEN /\ next_event' = next_event + 1
                         /\ calendar' = [calendar EXCEPT ![kind] = @ \cup
                               {add_event(EventId(next_event + 1), api_id, r.summary,
                                          r.start, r.end, r.description)}]
                         /\ pending' = [api_entry EXCEPT
                                           !.event_id = EventId(next_event + 1)]
                         /\ log' = Append(log, Op("create", api_id,
                                                  EventId(next_event + 1), TRUE))
                         /\ pc' = "save"
                         /\ UNCHANGED api_keys
                    ELSE /\ log' = Append(log, Op("create", api_id, None, FALSE))
                         /\ pc' = "crashed"
                         /\ UNCHANGED <<calendar, next_event, pending, api_keys>>
            [] d = "update" ->
                 \E ok \in BOOLEAN :
                    LET found == {e \in calendar[kind] : e.id = db_entry.event_id}
                    IN IF ok /\ found # {}
                       THEN /\ calendar' = [calendar EXCEPT ![kind] =
                                  (@ \ found) \cup
                                  {edit_event(e, r.summary, r.start, r.end,
                                              r.description) : e \in found}]
                            /\ pending' = [api_entry EXCEPT
                                              !.event_id = db_entry.event_id]
                            /\ log' = Append(log, Op("update", api_id,
                                                     db_entry.event_id, TRUE))
                            /\ pc' = "save"
                            /\ UNCHANGED <<next_event, api_keys>>
                       ELSE /\ log' = Append(log, Op("update", api_id,
                                                     db_entry.event_id, FALSE))
                            /\ pc' = AfterFailedEdit
                            /\ pending' = IF AfterFailedEdit = "save"
                                          THEN [api_entry EXCEPT !.event_id = None]
                                          ELSE pending
                            /\ UNCHANGED <<calendar, next_event, api_keys>>
    /\ UNCHANGED <<now, store, db, api, fetch_failed, k, window, upcoming_events,
                   list_failed, db_keys, prev_vars>>

\* api_entry["event_id"] = event_id; save_*_to_db(db_path, [api_entry]).  A
\* sqlite3 error is not caught anywhere.
SaveStep ==
    /\ pc = "save"
    /\ \E ok \in BOOLEAN :
        IF ok
        THEN /\ store' = save_to_db(store, kind, pending, FALSE)
             /\ log' = Append(log, Op("upsert", pending.id, pending.event_id, TRUE))
             /\ pc' = "loop"
             /\ api_keys' = Tail(api_keys)
        ELSE /\ log' = Append(log, Op("upsert", pending.id, pending.event_id, FALSE))
             /\ pc' = "crashed"
             /\ UNCHANGED <<store, api_keys>>
    /\ pending' = NoPending
    /\ UNCHANGED <<now, calendar, next_event, db, api, fetch_failed, k, window,
                   upcoming_events, list_failed, db_keys, prev_vars>>

\* One pass of "for db_id, db_entry in db_dict.items()" up to the return of
\* delete_event, which catches every exception
DbStep ==
    /\ pc = "loop"
    /\ api_keys = <<>>
    /\ \E db_id \in db_keys :
        LET db_entry == db[kind][db_id]
        IN /\ db_keys' = db_keys \ {db_id}
           /\ IF db_id \notin ApiIds(api[kind])
              THEN /\ pending' = db_entry
                   /\ pc' = "db_save"
                   /\ IF TruthyId(db_entry.event_id)
                      THEN \E ok \in BOOLEAN :
                            LET found == {e \in calendar[kind] :
                                             e.id = db_entry.event_id}
                            IN IF ok /\ found # {}
                               THEN /\ calendar' = [calendar EXCEPT
                                                       ![kind] = @ \ found]
                                    /\ log' = Append(log, Op("delete", db_id,
                                                  db_entry.event_id, TRUE))
                               ELSE /\ log' = Append(log, Op("delete", db_id,
                                                  db_entry.event_id, FALSE))
                                    /\ UNCHANGED calendar
                      ELSE UNCHANGED <<calendar, log>>
              ELSE UNCHANGED <<pc, calendar, pending, log>>
    /\ UNCHANGED <<now, store, next_event, db, api, fetch_failed, k, window,
                   upcoming_events, list_failed, api_keys, prev_vars>>

\* save_*_to_db(db_path, [db_entry], delete=True)
DbSaveStep ==
    /\ pc = "db_save"
    /\ \E ok \in BOOLEAN :
        IF ok
        THEN /\ store' = save_to_db(store, kind, pending, TRUE)
             /\ log' = Append(log, Op("db_delete", pending.id, pending.event_id, TRUE))
             /\ pc' = "loop"
        ELSE /\ log' = Append(log, Op("db_delete", pending.id, pending.event_id, FALSE))
             /\ pc' = "crashed"
             /\ UNCHANGED store
    /\ pending' = NoPending
    /\ UNCHANGED <<now, calendar, next_event, db, api, fetch_failed, k, window,
                   upcoming_events, list_failed, api_keys, db_keys, prev_vars>>

\* What compare_and_update hands back to main(): the function has no return
\* statement, and main() does not bind the value of the call
compare_and_update_return == None

\* compare_and_update returns; main() calls it for the next kind or returns
EndCompare ==
    /\ pc = "loop"
    /\ api_keys = <<>>
    /\ db_keys = {}
    /\ IF k < Len(Kinds)
       THEN k' = k + 1 /\ pc' = "list"
       ELSE k' = k /\ pc' = "done"
    /\ upcoming_events' = {}
    /\ list_failed' = FALSE
    /\ same_window' = FALSE
    /\ UNCHANGED <<now, store, calendar, next_event, db, api, fetch_failed, window,
                   api_keys, db_keys, pending, log, repeat, prev_api, prev_window>>

\* ------------------------------------------------------------ environment
\* The process is killed between two statements; what it held in memory is gone
Interrupt ==
    /\ pc \notin Stopped
    /\ pc' = "killed"
    /\ ResetRun
    /\ ResetPrev
    /\ UNCHANGED <<now, store, calendar, next_event>>

\* The database file is removed between two invocations; setup_database
\* creates it again, empty
CacheLost ==
    /\ pc \in Stopped
    /\ store # NoStore
    /\ store' = NoStore
    /\ pc' = "idle"
    /\ ResetRun
    /\ ResetPrev
    /\ UNCHANGED <<now, calendar, next_event>>

Next ==
    \/ StartMain
    \/ Fetch
    \/ FetchFails
    \/ FetchTargetsFail
    \/ BeginCompare
    \/ ApiStep
    \/ SaveStep
    \/ DbStep
    \/ DbSaveStep
    \/ EndCompare
    \/ Interrupt
    \/ CacheLost

Spec == Init /\ [][Next]_vars

\* ------------------------------------------- compare_and_update on any input
\* The database file and the calendar exist before main() starts.  Here they are
\* drawn from a bounded set: for one kind, each id has no row or a row whose
\* event_id is NULL or names a live event made from that row; one invocation
\* of main() follows.
IdIndex(i) == CHOOSE n \in 1..MaxIds : IdNames[n] = i
RawItem(kd, i, v) ==
    CASE kd = "task" -> RawTask(i, v[1], v[2], 500, <<"CODENAME">>, 1)
      [] kd = "target" -> [slug |-> i, codename |-> v[1], upcoming_start_date |-> v[2]]
      [] kd = "patch_verification" -> [id |-> i, vuln_title |-> v[1], expires_at |-> v[2]]
NoChoice == <<<<>>, 0>>
StoredEntry(kd, i, v, linked) ==
    [parse_response(kd, <<RawItem(kd, i, v)>>)[1] EXCEPT
        !.event_id = IF linked THEN EventId(IdIndex(i)) ELSE None]
InitReconcile ==
    /\ pc = "idle"
    /\ now = MaxNow - 1
    /\ next_event = MaxIds
    /\ \E kd \in KindSet :
       \E choice \in [Ids -> (RawVariants \cup {NoChoice}) \X BOOLEAN] :
        /\ \A i \in Ids : choice[i][1] = NoChoice => ~choice[i][2]
        /\ store = [NoStore EXCEPT ![kd] =
                      {RowOf(kd, StoredEntry(kd, i, choice[i][1], choice[i][2])) :
                          i \in {j \in Ids : choice[j][1] # NoChoice}}]
        /\ calendar = [NoWindows EXCEPT ![kd] =
                         {LET e == StoredEntry(kd, i, choice[i][1], TRUE)
                              r == Render(kd, e, MaxNow - 1)
                          IN add_event(e.event_id, i, r.summary, r.start, r.end,
                                       r.description) :
                            i \in {j \in Ids : choice[j][2]}}]
    /\ FreshRun
    /\ repeat = FALSE
    /\ same_window = FALSE
    /\ prev_api = NoLists
    /\ prev_window = NoWindows

SpecReconcile == InitReconcile /\ [][Next]_vars

\* ------------------------------------------- two invocations on a stored state
\* The database file and the calendar as a completed invocation leaves them
\* when the tasks it fetched all had the same title and claimedOn: every id has
\* a row whose event_id names the live event made from that row.  Two
\* invocations of main() follow, which makes three in all.
InitLinked ==
    /\ pc = "idle"
    /\ now = MaxNow - 2
    /\ next_event = MaxIds
    /\ \E v \in RawVariants :
        /\ store = [NoStore EXCEPT !["task"] =
                      {RowOf("task", StoredEntry("task", i, v, TRUE)) : i \in Ids}]
        /\ calendar = [NoWindows EXCEPT !["task"] =
                         {LET e == StoredEntry("task", i, v, TRUE)
                              r == Render("task", e, MaxNow - 2)
                          IN add_event(e.event_id, i, r.summary, r.start, r.end,
                                       r.description) : i \in Ids}]
    /\ FreshRun
    /\ repeat = FALSE
    /\ same_window = FALSE
    /\ prev_api = NoLists
    /\ prev_window = NoWindows

\* The three fetches answer 200 and only tasks come back
FetchTasks == FetchFrom({"task"}, [kd \in KindSet |-> RawItems(kd)], MaxFetched)

\* Here the fetches answer 200, the process is not killed and the database file
\* stays; a calendar call or a database write may still raise
NextLinked ==
    \/ StartMain
    \/ FetchTasks
    \/ BeginCompare
    \/ ApiStep
    \/ SaveStep
    \/ DbStep
    \/ DbSaveStep
    \/ EndCompare

SpecLinked == InitLinked /\ [][NextLinked]_vars

\* ------------------------------------------- one task of any shape, fetched
\* The tasks response with every field the rendering reads drawn freely: the
\* payout amount, a title, a description and a listing codename with or
\* without an address in them, the claimedOn time and the
\* maxCompletionTimeInSecs
RichTasks ==
    {[RawTask(i, t, c, p, n, d) EXCEPT !.description = ds] :
        i \in Ids,
        ds \in {<<"steps">>, <<"see", "10.0.0.1">>},
        t \in {<<"Fix", "XSS">>, <<"example.com">>},
        c \in {2, 3},
        p \in {0, 500},
        n \in {<<"CODENAME">>, <<"example.com">>},
        d \in {1, 2}}
FetchRichTask == FetchFrom({"task"}, [kd \in KindSet |-> RichTasks], 1)
NextTask ==
    \/ StartMain
    \/ FetchRichTask
    \/ BeginCompare
    \/ ApiStep
    \/ SaveStep
    \/ DbStep
    \/ DbSaveStep
    \/ EndCompare
SpecTask == Init /\ [][NextTask]_vars

\* ------------------------------------------- main() on any configuration
\* One invocation on a database file and calendars drawn as above, with each
\* of the three calendar ids set, empty or unset in the configuration; when
\* main() goes on, the fetches answer 200 and only tasks come back.
MainAnyConfig == MainFrom(Configs)
NextConfig ==
    \/ MainAnyConfig
    \/ FetchTasks
    \/ BeginCompare
    \/ ApiStep
    \/ SaveStep
    \/ DbStep
    \/ DbSaveStep
    \/ EndCompare
SpecConfig == InitReconcile /\ [][NextConfig]_vars

\* ------------------------------------------- save_*_to_db on any list
\* One call of save_*_to_db on a database file drawn as above, with a list of
\* up to MaxFetched records of one kind, which may raise at any statement.
\* The log keeps the arguments and the file as it was before the call.
SavedEntries(kd) ==
    {[parse_response(kd, <<item>>)[1] EXCEPT !.event_id = e] :
        item \in RawItems(kd), e \in {None, EventId(1)}}
SaveList ==
    /\ pc = "idle"
    /\ log = <<>>
    /\ \E kd \in KindSet :
       \E n \in 0..MaxFetched :
       \E data \in [1..n -> SavedEntries(kd)] :
       \E delete \in BOOLEAN :
       \E raises_at \in 0..(n + 1) :
        /\ store' = save_list_to_db(store, kd, data, delete, raises_at)
        /\ log' = <<[op |-> "save_list", kind |-> kd, data |-> data,
                     delete |-> delete, raises_at |-> raises_at, before |-> store]>>
    /\ UNCHANGED <<pc, now, calendar, next_event, db, api, fetch_failed, k, window,
                   upcoming_events, list_failed, api_keys, db_keys, pending,
                   prev_vars>>
SpecSave == InitReconcile /\ [][SaveList]_vars

\* ================================================================ properties
\* The states inside the compare_and_update call of Kinds[k] (a crash keeps them)
InCompare == pc \in {"loop", "save", "db_save", "crashed"}
Writes == {"create", "update", "delete", "upsert", "db_delete"}
\* The positions of the log at which this call issued one of ops for id
LogOf(id, ops) ==
    {i \in DOMAIN log : log[i].kind = kind /\ log[i].id = id /\ log[i].op \in ops}
\* The first loop has finished its pass for id
Visited(id) == id \in ApiIds(api[kind]) /\ id \notin Range(api_keys)
\* The second loop has finished its pass for id
DeletePassed(id) ==
    /\ api_keys = <<>>
    /\ id \notin db_keys
    /\ ~(pc = "db_save" /\ pending.id = id)
    /\ \A i \in LogOf(id, {"db_delete"}) : log[i].ok

\* The row the store holds for id, NoRow when there is none
StoredRow(kd, id) ==
    IF \E r \in store[kd] : r.id = id
    THEN CHOOSE r \in store[kd] : r.id = id
    ELSE NoRow
\* A stored row read back as an entry: the ISO texts parsed again
EntryOfRow(kd, row) ==
    CASE kd = "task" ->
           [row EXCEPT !.claimed_on = fromisoformat(@),
                       !.max_completion_time = fromisoformat(@)]
      [] kd = "target" -> [row EXCEPT !.start = fromisoformat(@)]
      [] kd = "patch_verification" -> [row EXCEPT !.expires = fromisoformat(@)]
Rendered(id) == Render(kind, ApiEntry(api[kind], id), now)
StoredRendered(id) == Render(kind, EntryOfRow(kind, db[kind][id]), now)
\* Some event of the listed window has the summary and start rendered for id
WindowMatch(id) == event_exists(window[kind], Rendered(id).summary, Rendered(id).start)

\* C1 Create-on-new: for an id that is fetched, absent from the cached snapshot
\* and matched by no window event, the call issues at most one create, no update
\* and no delete; an upsert of the id comes after a successful create and carries
\* the non-null event id that create returned; and once the loop has passed the
\* id there is exactly one create and exactly one upsert, and the stored row
\* holds that event id.
IsNewId(id) == id \in ApiIds(api[kind]) /\ db[kind][id] = NoRow /\ ~WindowMatch(id)
C1_CreateOnNew ==
    InCompare =>
        \A id \in Ids : IsNewId(id) =>
            LET creates == LogOf(id, {"create"})
                upserts == LogOf(id, {"upsert"})
            IN /\ Cardinality(creates) <= 1
               /\ Cardinality(upserts) <= 1
               /\ LogOf(id, {"update", "delete", "db_delete"}) = {}
               /\ \A j \in upserts : \E i \in creates :
                    /\ i < j
                    /\ log[i].ok
                    /\ log[i].event_id # None
                    /\ log[j].event_id = log[i].event_id
               /\ Visited(id) =>
                    /\ Cardinality(creates) = 1
                    /\ Cardinality(upserts) = 1
                    /\ \A i \in creates : StoredRow(kind, id) # NoRow
                                          /\ StoredRow(kind, id).event_id = log[i].event_id
C1_Witness ==
    /\ pc = "loop"
    /\ \E id \in Ids : IsNewId(id) /\ Visited(id) /\ LogOf(id, {"upsert"}) # {}

\* C2 Update-on-change (as amended): for an id in both cached and fetched whose
\* rendered fields differ from the stored record's, whose cached event_id is
\* non-null and whose rendered summary and start match no window event, the call
\* issues no create and at most one update, every update uses the cached
\* event_id, and once the loop has passed the id there is exactly one update.
IsChangedId(id) ==
    /\ id \in ApiIds(api[kind])
    /\ db[kind][id] # NoRow
    /\ Rendered(id) # StoredRendered(id)
UpdateOnChange(id) ==
    LET updates == LogOf(id, {"update"})
    IN /\ LogOf(id, {"create"}) = {}
       /\ Cardinality(updates) <= 1
       /\ \A i \in updates : log[i].event_id = db[kind][id].event_id
       /\ Visited(id) => Cardinality(updates) = 1
C2_UpdateOnChange ==
    InCompare =>
        \A id \in Ids :
            (IsChangedId(id) /\ db[kind][id].event_id # None /\ ~WindowMatch(id))
                => UpdateOnChange(id)
C2_Witness ==
    /\ pc = "loop"
    /\ \E id \in Ids :
        /\ IsChangedId(id) /\ db[kind][id].event_id # None /\ ~WindowMatch(id)
        /\ Visited(id)
        /\ LogOf(id, {"update"}) # {}
\* C2 as stated, with no word of the window: violated when the dedup guard
\* matches and the changed record is skipped
C2_AsStated ==
    InCompare =>
        \A id \in Ids :
            (IsChangedId(id) /\ db[kind][id].event_id # None) => UpdateOnChange(id)

\* C3 Self-heal (as amended): for an id in both cached and fetched whose
\* rendered fields differ, whose cached event_id is null and whose rendered
\* summary and start match no window event, the call issues no update and at
\* most one create, and once the loop has passed the id there is exactly one
\* create.
SelfHeal(id) ==
    LET creates == LogOf(id, {"create"})
    IN /\ LogOf(id, {"update"}) = {}
       /\ Cardinality(creates) <= 1
       /\ Visited(id) => Cardinality(creates) = 1
IsGoneId(id) == db[kind][id] # NoRow /\ id \notin ApiIds(api[kind])
C4_DeleteOnDisappearance ==
    InCompare =>
        \A id \in Ids : IsGoneId(id) =>
            LET deletes == LogOf(id, {"delete"})
            IN /\ Cardinality(deletes) <= 1
               /\ \A i \in deletes : /\ db[kind][id].event_id # None
                                     /\ log[i].event_id = db[kind][id].event_id
               /\ LogOf(id, {"create", "update", "upsert"}) = {}
               /\ DeletePassed(id) =>
                    /\ (deletes # {}) <=> db[kind][id].event_id # None
                    /\ StoredRow(kind, id) = NoRow
\* A row whose projection delete failed and a row without event_id have both
\* been removed
C4_Witness ==
    /\ pc = "loop"
    /\ \E id \in Ids :
        /\ IsGoneId(id) /\ DeletePassed(id)
        /\ \E i \in LogOf(id, {"delete"}) : ~log[i].ok
    /\ \E id \in Ids :
        /\ IsGoneId(id) /\ DeletePassed(id)
        /\ db[kind][id].event_id = None

\* No projection call and no store write of this call is in the log
NoWrites == \A i \in DOMAIN log : log[i].kind = kind => log[i].op \notin Writes

\* C5 Dedup guard precedence: when some event of the listed window has the
\* summary and start rendered for a fetched id, the call issues no projection
\* call and no store write for that id, cached or not, also when the window
\* holds several events with that summary.
C5_DedupGuardPrecedence ==
    InCompare =>
        \A id \in ApiIds(api[kind]) : WindowMatch(id) => LogOf(id, Writes) = {}

\* C6 Idempotence: a run that starts right after a run that returned, with the
\* same fetched lists and the same listed window, issues no projection call and
\* no store write.
C6_Idempotence == (InCompare /\ repeat /\ same_window) => NoWrites

\* C7 Convergence: when the cached snapshot and fetched hold the same ids with
\* the same rendered fields and the window holds a matching event for each of
\* them, the call issues no projection call and no store write.
C7_Convergence ==
    (/\ InCompare
     /\ Present(db[kind]) = ApiIds(api[kind])
     /\ \A id \in ApiIds(api[kind]) :
            Rendered(id) = StoredRendered(id) /\ WindowMatch(id))
    => NoWrites

\* C8 Unchanged means no operation: for an id in both cached and fetched that no
\* window event matches, if the rendered summary, start, end and description of
\* the fetched record equal those of the stored record, the call issues no
\* projection call and no store write for that id.
C8_UnchangedNoOperation ==
    InCompare =>
        \A id \in ApiIds(api[kind]) :
            (/\ db[kind][id] # NoRow
             /\ ~WindowMatch(id)
             /\ Rendered(id) = StoredRendered(id))
            => LogOf(id, Writes) = {}

\* C9 At most one projected event per record: every calendar holds at most one
\* live event made for any one record id.
C9_AtMostOneEventPerRecord ==
    \A kd \in KindSet : \A id \in Ids :
        Cardinality({e \in calendar[kd] : e.rec = id}) <= 1

\* C10 Item-level failures do not abort the run: when a call for one id has
\* failed, every other id of fetched and of the cached snapshot has still been
\* processed by the time the call stops.
C10_ItemFailureDoesNotAbort ==
    pc = "crashed" =>
        LET failing == log[Len(log)].id
        IN \A id \in Ids \ {failing} :
            /\ id \in ApiIds(api[kind]) => Visited(id)
            /\ IsGoneId(id) => DeletePassed(id)

\* C11 Cache untouched on failure: when the projection create or update for an
\* id has failed in this run, the stored row of that id is what the run read at
\* its start: no row for a new id, and the same fields and event_id for an
\* existing one (in particular a non-null event_id is still there).
FailedProjection(id) ==
    \E i \in LogOf(id, {"create", "update"}) : ~log[i].ok
C11_CacheUntouchedOnFailure ==
    InCompare =>
        \A id \in Ids : FailedProjection(id) =>
            /\ StoredRow(kind, id) = db[kind][id]
            /\ LogOf(id, {"upsert", "db_delete"}) = {}
C11_Witness ==
    /\ pc = "crashed"
    /\ \E id \in Ids :
        /\ \E i \in LogOf(id, {"update"}) : ~log[i].ok
        /\ db[kind][id] # NoRow
        /\ db[kind][id].event_id # None
        /\ StoredRow(kind, id).event_id = db[kind][id].event_id

\* C12 Fatal fetch failure aborts before any mutation: in a run in which the
\* fetch of some kind has failed, no projection call and no store write of any
\* kind is issued.
C12_FatalFetchAbortsBeforeMutation ==
    fetch_failed # {} => \A i \in DOMAIN log : log[i].op \notin Writes

\* C13 A failed fetch is not an empty fetched list: in a run in which the fetch
\* of a kind has failed, no event of that kind is deleted from the calendar and
\* no row of that kind is deleted from the store (no delete of either sort
\* succeeds for that kind).
C13_FailedFetchDeletesNothing ==
    \A i \in DOMAIN log :
        (log[i].kind \in fetch_failed /\ log[i].ok)
            => log[i].op \notin {"delete", "db_delete"}

\* compare_and_update has returned for kd in this run
KindIndex(kd) == CHOOSE n \in DOMAIN Kinds : Kinds[n] = kd
Completed(kd) ==
    \/ pc = "done"
    \/ pc \in {"list", "loop", "save", "db_save", "crashed"} /\ KindIndex(kd) < k
StoredIds(kd) == {r.id : r \in store[kd]}
\* The fetched ids that had no row when the run began and that the dedup guard
\* skipped
SkippedNew(kd) ==
    {id \in Ids : /\ db[kd][id] = NoRow
                  /\ \E i \in DOMAIN log :
                        log[i].kind = kd /\ log[i].id = id /\ log[i].op = "skip"}

\* C14 CacheRecord lifecycle (as amended): once compare_and_update has returned
\* for a kind, the ids stored for that kind are the ids of that run's fetched
\* list, without the ids that had no row before the run and that the dedup guard
\* skipped.
C14_CacheRecordLifecycle ==
    \A kd \in KindSet :
        Completed(kd) => StoredIds(kd) = ApiIds(api[kd]) \ SkippedNew(kd)
\* A new id was skipped and left without a row, another id was stored
C14_Witness ==
    \E kd \in KindSet :
        /\ Completed(kd)
        /\ SkippedNew(kd) # {}
        /\ StoredIds(kd) # {}
\* C14 as stated: the stored ids equal the fetched ids; violated when the dedup
\* guard skips an id that has no row
C14_AsStated ==
    \A kd \in KindSet : Completed(kd) => StoredIds(kd) = ApiIds(api[kd])

\* C15 ProjectedEvent lifecycle: no event the engine created stays on the
\* calendar after its record has disappeared from fetched.  A completed run
\* removes every row whose id is not fetched, and only a row leads to a delete
\* call, so an event that survives the first completed run without its record
\* survives every later one; hence, as a property of one run: after a run that
\* has returned and in which every call succeeded, every event on a kind's
\* calendar was made for a record of that run's fetched list.
C15_ProjectedEventLifecycle ==
    (pc = "done" /\ \A i \in DOMAIN log : log[i].ok) =>
        \A kd \in KindSet : \A e \in calendar[kd] : e.rec \in ApiIds(api[kd])

\* C16 At most one CacheRecord per (entity kind, id): in every state no table
\* holds two rows with the same id, whatever upserts and deletes came before.
C16_OneRowPerId ==
    \A kd \in KindSet : \A r1, r2 \in store[kd] : r1.id = r2.id => r1 = r2
\* An upsert has replaced the row of an id by a different row
C16_Witness ==
    /\ pc = "loop"
    /\ \E id \in Ids :
        /\ db[kind][id] # NoRow
        /\ \E i \in LogOf(id, {"upsert"}) : log[i].ok
        /\ StoredRow(kind, id) # db[kind][id]
        /\ Cardinality({r \in store[kind] : r.id = id}) = 1

\* C17 Stored event ids are live and distinct: after a run that has returned,
\* every non-null event_id of a row is the id of an event on that kind's
\* calendar, and no two rows of the kind hold the same event_id.
C17_StoredEventIdsLive ==
    pc = "done" =>
        \A kd \in KindSet : \A r \in store[kd] :
            r.event_id # None =>
                /\ \E e \in calendar[kd] : e.id = r.event_id
                /\ \A r2 \in store[kd] : r2.event_id = r.event_id => r2 = r

\* C18 Per-id ordering render, project, persist: every store upsert of an id
\* comes after a create or update call for that id that has returned, and
\* carries the event id of that call; and at every point of the run, so wherever
\* it might be interrupted, the stored row of a fetched id is either the row the
\* run read at its start or the complete new row (the fetched fields with the
\* event id the call returned), never a mixture.
ReturnedCalls(id) == {i \in LogOf(id, {"create", "update"}) : log[i].ok}
C18_ProjectThenPersist ==
    InCompare =>
        \A id \in ApiIds(api[kind]) :
            /\ \A j \in LogOf(id, {"upsert"}) :
                    \E i \in ReturnedCalls(id) :
                        i < j /\ log[j].event_id = log[i].event_id
            /\ \/ StoredRow(kind, id) = db[kind][id]
               \/ \E i \in ReturnedCalls(id) :
                     StoredRow(kind, id) =
                        RowOf(kind, [ApiEntry(api[kind], id) EXCEPT
                                        !.event_id = log[i].event_id])
\* Between project and persist: the create has returned, the row is not written
C18_Witness ==
    /\ pc = "save"
    /\ ReturnedCalls(pending.id) # {}
    /\ LogOf(pending.id, {"upsert"}) = {}
    /\ StoredRow(kind, pending.id) = db[kind][pending.id]
    /\ \E kd \in KindSet : store[kd] # {}

\* C19 Rendering is a pure function of the record: whatever the wall-clock time of
\* the run that renders a fetched record of any kind, the summary, start, end
\* and description are the ones this run renders.
C19_RenderingIsPure ==
    InCompare =>
        \A id \in ApiIds(api[kind]) :
            \A clock \in 1..MaxNow :
                Render(kind, ApiEntry(api[kind], id), clock) = Rendered(id)

\* C20 Task rendering (as amended): a fetched task with payout p, title t,
\* listing codename c, claimed-on time T0 and duration d seconds, with empty
\* cached and empty window, yields at most one create, and exactly one once
\* the loop has passed it; the event that create made has as its summary the
\* sanitized text of "p - t' - c", t' being the sanitized title (IP addresses
\* and domain names masked), the start T0 and the end T0 + d; and the stored
\* row holds the event id the create returned.
TaskSummary(item) ==
    <<ToString(item.payout), "-">> \o item.title \o <<"-">> \o item.listingCodename
\* The fetched items the entry of id can have been parsed from
TaskSources(id) ==
    {item \in RichTasks : parse_task(item) = ApiEntry(api["task"], id)}
SanitizedTaskSummary(item) ==
    sanitize_text(<<ToString(item.payout), "-">> \o sanitize_text(item.title)
                    \o <<"-">> \o item.listingCodename)
EmptyCachedAndWindow ==
    /\ InCompare
    /\ kind = "task"
    /\ db["task"] = EmptyTable
    /\ window["task"] = {}
\* The events the returned create calls of id made
CreatedEvents(id) ==
    {e \in calendar["task"] :
        \E i \in LogOf(id, {"create"}) : log[i].ok /\ log[i].event_id = e.id}
C20_TaskRendering ==
    EmptyCachedAndWindow =>
        \A id \in ApiIds(api["task"]) : \A item \in TaskSources(id) :
            /\ Cardinality(LogOf(id, {"create"})) <= 1
            /\ \A e \in CreatedEvents(id) :
                    /\ e.summary = SanitizedTaskSummary(item)
                    /\ fromisoformat(e.start) = Datetime(item.claimedOn)
                    /\ fromisoformat(e.end) =
                          Datetime(item.claimedOn + item.maxCompletionTimeInSecs)
            /\ Visited(id) =>
                    /\ Cardinality(LogOf(id, {"create"})) = 1
                    /\ Cardinality(CreatedEvents(id)) = 1
                    /\ \A e \in CreatedEvents(id) :
                          StoredRow("task", id) # NoRow
                          /\ StoredRow("task", id).event_id = e.id
\* A task whose title holds a domain name has been created and stored
C20_Witness ==
    /\ EmptyCachedAndWindow
    /\ pc = "loop"
    /\ \E id \in ApiIds(api["task"]) :
          /\ Visited(id)
          /\ \E item \in TaskSources(id) :
                item.title = <<"example.com">> /\ item.maxCompletionTimeInSecs = 2
          /\ \E e \in CreatedEvents(id) : StoredRow("task", id).event_id = e.id
\* C20 as stated: the summary of the created event is "p - t - c" itself
C20_AsStated ==
    EmptyCachedAndWindow =>
        \A id \in ApiIds(api["task"]) : \A item \in TaskSources(id) :
            \A e \in CreatedEvents(id) : e.summary = TaskSummary(item)

\* C21 Every free-text value a create or update call has sent to the calendar
\* (the summary, the description and the location of the event body) is
\* sanitized: it holds no IP-address-shaped and no domain-name-shaped token.
Sanitized(text) ==
    \A i \in DOMAIN text : text[i] \notin IpShaped \cup DomainShaped
C21_ProjectedTextSanitized ==
    \A kd \in KindSet : \A e \in calendar[kd] :
        /\ Sanitized(e.summary)
        /\ Sanitized(e.description)
        /\ e.location = None
\* An update has returned for a task whose fetched title holds a domain name
\* and whose fetched description holds an IP address
C21_Witness ==
    /\ pc = "save"
    /\ kind = "task"
    /\ LogOf(pending.id, {"update"}) # {}
    /\ \E item \in RichTasks :
          /\ parse_task(item) = ApiEntry(api["task"], pending.id)
          /\ ~Sanitized(item.title)
          /\ ~Sanitized(item.description)
    /\ \E e \in calendar["task"] :
          e.id = pending.event_id /\ e.summary[3] = "[domain]"
                                  /\ e.description = <<"see", "*.*.*.*">>

\* C22 Record Store semantics: an upsert of record r leaves exactly one row with
\* r's id, the record the listing returns for that id equals r in every field
\* (event_id included), and every other row of every kind is unchanged; a
\* delete removes the row with that id and leaves every other row of every
\* kind unchanged.
OtherRows(st, kd, id) == {x \in st[kd] : kd # kind \/ x.id # id}
C22_RecordStoreSemantics ==
    [][/\ (pc = "save" /\ pc' = "loop") =>
            /\ Cardinality({x \in store'[kind] : x.id = pending.id}) = 1
            /\ get_upcoming_entries(store', now)[kind][pending.id] = pending
            /\ \A kd \in KindSet :
                  OtherRows(store', kd, pending.id) = OtherRows(store, kd, pending.id)
       /\ (pc = "db_save" /\ pc' = "loop") =>
            /\ {x \in store'[kind] : x.id = pending.id} = {}
            /\ \A kd \in KindSet :
                  OtherRows(store', kd, pending.id) = OtherRows(store, kd, pending.id)
      ]_vars

\* C23 A collection-level store write is all-or-nothing: when the write of any
\* item of the list passed to a save_*_to_db call fails (or the commit does),
\* the database file is exactly as it was before the call; when nothing fails,
\* every item of the list has been written.
C23_CollectionWriteAtomic ==
    \A c \in Range(log) :
        IF c.raises_at # 0
        THEN store = c.before
        ELSE \A i \in DOMAIN c.data :
                IF c.delete
                THEN \A x \in store[c.kind] : x.id # c.data[i].id
                ELSE \E x \in store[c.kind] : x.id = c.data[i].id
\* The second of two statements raised after the first had changed a row
C23_Witness ==
    \E c \in Range(log) :
        /\ c.raises_at = 2
        /\ Len(c.data) = 2
        /\ Executed(c.before, c.kind, c.data, c.delete, 1) # c.before
        /\ store = c.before

\* C24 The process ends with a non-zero exit status (exit(1), or an uncaught
\* exception) only when a fetch of this run has failed: a failing projection
\* call or store write leaves the exit status at zero.
NonZeroExit == pc \in {"exit1", "crashed"}
C24_NonZeroExitOnlyOnFatalFetch == NonZeroExit => fetch_failed # {}

\* C25 Kind isolation: an invocation that has got past its fetches and is not
\* killed runs compare_and_update once for each of task, target and
\* patch_verification, so it has reached the third call when it ends; and a
\* step of the call for one kind leaves the rows and the events of the two
\* other kinds unchanged.
OtherKindsUnchanged ==
    \A kd \in KindSet \ {kind} : store'[kd] = store[kd] /\ calendar'[kd] = calendar[kd]
C25_KindIsolation ==
    [][/\ pc \in {"list", "loop", "save", "db_save"} /\ pc' # "killed"
            => OtherKindsUnchanged
       /\ pc' \in {"done", "crashed"} => k' = Len(Kinds)
      ]_vars

\* C26 A fetched list that holds the same id more than once is treated as one
\* record with the fields of the later occurrence: the id gets at most one
\* projection call and at most one upsert, the event body the call sent is
\* rendered from the later occurrence, and the row written holds the later
\* occurrence's fields.
Occurrences(id) == {i \in DOMAIN api[kind] : api[kind][i].id = id}
LaterOccurrence(id) ==
    api[kind][CHOOSE i \in Occurrences(id) : \A j \in Occurrences(id) : j <= i]
Duplicated(id) == Cardinality(Occurrences(id)) > 1
C26_LaterDuplicateWins ==
    InCompare =>
        \A id \in Ids : Duplicated(id) =>
            LET later == LaterOccurrence(id)
                r == Render(kind, later, now)
            IN /\ Cardinality(LogOf(id, {"create", "update"})) <= 1
               /\ Cardinality(LogOf(id, {"upsert"})) <= 1
               /\ (pc = "save" /\ pending.id = id) =>
                    /\ pending = [later EXCEPT !.event_id = pending.event_id]
                    /\ \E e \in calendar[kind] :
                          /\ e.id = pending.event_id
                          /\ e.summary = sanitize_text(r.summary)
                          /\ e.description = sanitize_text(r.description)
                          /\ e.start = isoformat(r.start)
                          /\ e.end = isoformat(r.end)
               /\ \A j \in LogOf(id, {"upsert"}) : log[j].ok =>
                    StoredRow(kind, id) =
                        RowOf(kind, [later EXCEPT !.event_id = log[j].event_id])
\* An id fetched twice with different fields has been projected and stored
C26_Witness ==
    /\ pc = "loop"
    /\ \E id \in Ids :
          /\ Duplicated(id)
          /\ api[kind][1] # api[kind][2]
          /\ Visited(id)
          /\ \E j \in LogOf(id, {"upsert"}) : log[j].ok

\* C27 When the compare_and_update call of a kind has returned, the value it
\* returned is a result whose created, updated, deleted and skipped counts
\* are the numbers of creates, updates and deletes the call issued and of
\* records its dedup guard skipped, with one error entry per id whose
\* operation failed.
OpsOf(kd, ops) == {i \in DOMAIN log : log[i].kind = kd /\ log[i].op \in ops}
C27_ReconcileResultCounts ==
    \A kd \in KindSet : Completed(kd) =>
        LET result == compare_and_update_return
        IN /\ result # None
           /\ result.created = Cardinality(OpsOf(kd, {"create"}))
           /\ result.updated = Cardinality(OpsOf(kd, {"update"}))
           /\ result.deleted = Cardinality(OpsOf(kd, {"delete"}))
           /\ result.skipped = Cardinality(OpsOf(kd, {"skip"}))
           /\ result.errors = {log[i].id : i \in {j \in OpsOf(kd, Writes) : ~log[j].ok}}

\* C28 Once the changed-record step has run for an id (the id had a cached row,
\* its update or create call has returned and the statement after it has been
\* executed), exactly one upsert has been issued for the id; it carries the
\* event id that call returned, which on the update path is the event id of
\* the cached row; and when it succeeds the stored row is the fetched record
\* with that event id.
ChangedStepDone(id) ==
    /\ id \in ApiIds(api[kind])
    /\ db[kind][id] # NoRow
    /\ ReturnedCalls(id) # {}
    /\ ~(pc = "save" /\ pending.id = id)
C28_UpsertAfterChange ==
    InCompare =>
        \A id \in Ids : ChangedStepDone(id) =>
            LET upserts == LogOf(id, {"upsert"})
            IN /\ Cardinality(upserts) = 1
               /\ Cardinality(ReturnedCalls(id)) = 1
               /\ \A j \in upserts : \A i \in ReturnedCalls(id) :
                    /\ i < j
                    /\ log[j].event_id = log[i].event_id
                    /\ log[j].event_id # None
                    /\ log[i].op = "update" =>
                          log[j].event_id = db[kind][id].event_id
                    /\ log[j].ok =>
                          StoredRow(kind, id) =
                             RowOf(kind, [ApiEntry(api[kind], id) EXCEPT
                                             !.event_id = log[i].event_id])
\* A cached row has been replaced on the update path
C28_Witness ==
    /\ pc = "loop"
    /\ \E id \in Ids :
          /\ ChangedStepDone(id)
          /\ \E i \in ReturnedCalls(id) : log[i].op = "update"
          /\ StoredRow(kind, id) # db[kind][id]
          /\ StoredRow(kind, id).event_id = db[kind][id].event_id

\* C29 The cached snapshot a run loads holds exactly the stored rows whose time
\* field (max_completion_time, start, expires) is later than the time of the
\* run: no row whose time is not later than now is handed to
\* compare_and_update, so none is updated or deleted by it.
RowTime(kd, row) == fromisoformat(TimeColumn(kd, row)).datetime
C29_SnapshotIsUpcoming ==
    pc \notin Stopped =>
        \A kd \in KindSet : \A id \in Ids :
            /\ db[kd][id] # NoRow => RowTime(kd, db[kd][id]) > now
            /\ \A i \in DOMAIN log :
                  (log[i].kind = kd /\ log[i].id = id
                        /\ log[i].op \in {"update", "delete", "db_delete"})
                     => RowTime(kd, db[kd][id]) > now

\* C30 Steady state after a create: in a run that follows a run which returned
\* and fetches the same lists, for an id whose stored row is the fetched
\* record with the event id of an event the window shows, the dedup guard
\* matches (some window event has the summary and start rendered for the id)
\* and no projection call and no store write is issued for the id, whatever
\* the kind.
SteadyId(id) ==
    /\ id \in ApiIds(api[kind])
    /\ db[kind][id] # NoRow
    /\ db[kind][id].event_id # None
    /\ db[kind][id] = RowOf(kind, [ApiEntry(api[kind], id) EXCEPT
                                      !.event_id = db[kind][id].event_id])
    /\ \E e \in window[kind] : e.id = db[kind][id].event_id /\ e.rec = id
C30_SteadyStateAfterCreate ==
    (InCompare /\ repeat) =>
        \A id \in Ids : SteadyId(id) =>
            /\ WindowMatch(id)
            /\ LogOf(id, Writes) = {}

\* C31 The window is read once per compare_and_update call and not refreshed:
\* the guard works on the events listed at the start of the call, which hold no
\* event created in this call; so two fetched ids that render to the same
\* summary and start, both without a cached row and unmatched in the window,
\* are never skipped and each get their own create (at most one each, exactly
\* one once the loop has passed the id, and two different events).
Twins(id, other) ==
    /\ id # other
    /\ IsNewId(id)
    /\ IsNewId(other)
    /\ Rendered(id).summary = Rendered(other).summary
    /\ Rendered(id).start = Rendered(other).start
C31_WindowReadOnce ==
    (pc \in {"loop", "save", "db_save"}) =>
        /\ upcoming_events = get_upcoming_events(window[kind])
        /\ \A i \in DOMAIN log : log[i].op = "create" /\ log[i].kind = kind =>
              \A e \in window[kind] : e.id # log[i].event_id
        /\ \A id, other \in Ids : Twins(id, other) =>
              /\ LogOf(id, {"skip", "update"}) = {}
              /\ Cardinality(LogOf(id, {"create"})) <= 1
              /\ Visited(id) => Cardinality(LogOf(id, {"create"})) = 1
              /\ \A i \in LogOf(id, {"create"}) : \A j \in LogOf(other, {"create"}) :
                    log[i].event_id # None => log[i].event_id # log[j].event_id
\* Both twins have been created in one call
C31_Witness ==
    /\ pc = "loop"
    /\ \E id, other \in Ids :
          /\ Twins(id, other)
          /\ Visited(id) /\ Visited(other)
          /\ \E i \in LogOf(id, {"create"}) : \E j \in LogOf(other, {"create"}) :
                log[i].ok /\ log[j].ok /\ log[i].event_id # log[j].event_id

\* C32 No delete for a fetched id: every projection delete and every store
\* delete of a run is for an id that has a cached row and does not occur in
\* the list fetched for its kind, and within the call of a kind the deletes
\* come last: when one has been issued every fetched id has been processed,
\* and no skip, create, update or upsert of that kind follows it.
Deletes == {"delete", "db_delete"}
FetchedIds(kd) == {api[kd][n].id : n \in DOMAIN api[kd]}
C32_DeletesOnlyForGoneIds ==
    \A i \in DOMAIN log : log[i].op \in Deletes =>
        /\ log[i].id \notin FetchedIds(log[i].kind)
        /\ db[log[i].kind][log[i].id] # NoRow
        /\ log[i].kind = kind => api_keys = <<>>
        /\ \A j \in DOMAIN log :
              (j > i /\ log[j].kind = log[i].kind) => log[j].op \in Deletes
\* A call has created one id and then deleted the event and the row of another
C32_Witness ==
    /\ pc = "loop"
    /\ \E i, j, n \in DOMAIN log :
          /\ i < j /\ j < n
          /\ log[i].kind = kind /\ log[j].kind = kind /\ log[n].kind = kind
          /\ log[i].op = "upsert" /\ log[i].ok
          /\ log[j].op = "delete" /\ log[j].ok
          /\ log[n].op = "db_delete" /\ log[n].ok /\ log[n].id = log[j].id

\* C33 When listing the window fails, compare_and_update does not stop: it goes
\* on with an empty window, so its guard skips nothing, and every fetched id
\* the loop has passed went through the cache comparison: an id without a
\* cached row got one create, an id with a cached row that differs got one
\* update when the row has an event id and one create when it has none.
CallsFor(id, op) == Cardinality(LogOf(id, {op}))
ConfigLacksId(config) == \E key \in CalendarKeys : config[key] \in {None, ""}
C34_MissingCalendarIdReturns ==
    \A i \in DOMAIN log :
        (log[i].op = "main" /\ ConfigLacksId(log[i].config)) =>
            /\ pc = "returned"
            /\ Len(log) = 1
            /\ db = NoTables
            /\ api = NoLists
            /\ fetch_failed = {}
            /\ store = log[i].store
            /\ calendar = log[i].calendar
\* main() has returned for a configuration that lacks only the patch calendar,
\* with rows in the database and events on a calendar
C34_Witness ==
    /\ pc = "returned"
    /\ log # <<>>
    /\ log[1].config = [AllCalendars EXCEPT !["patch_calendar"] = None]
    /\ store # NoStore
    /\ calendar # NoWindows
====
